---- MODULE Spec2Model ----
(***************************************************************************)
(* Model of etl.py: the batch ETL that reads song metadata and listening   *)
(* logs and overwrites five parquet datasets (dim_songs, dim_artists,      *)
(* dim_users, dim_time, fact_songplays).                                   *)
(*                                                                         *)
(* A dataframe is a finite sequence of rows (records).  The order of the   *)
(* sequence is the order in which the engine lists the rows; the           *)
(* properties below only speak about rows, counts and keys.                *)
(* A JSON null in a string column is the value Null, a null ts is NoTs.    *)
(***************************************************************************)
EXTENDS Integers, Sequences, FiniteSets, TLC

VARIABLES song_data, log_data, dest, pc, phase

vars == <<song_data, log_data, dest, pc, phase>>

\* ------------------------------------------------------------------ bounds
MaxEvents == 3
MaxSongs == 2
MaxPartitions == 2

\* ------------------------------------------------------------- null values
Null == "null"
NoTs == -1

\* SQL equality: a comparison with null is never true
SqlEq(a, b) == a /= Null /\ b /= Null /\ a = b

SqlEqTs(a, b) == a /= NoTs /\ b /= NoTs /\ a = b

\* --------------------------------------------------------- sequence helpers
Range(s) == {s[i] : i \in 1..Len(s)}

RECURSIVE Flatten(_)
Flatten(ss) ==
    IF ss = <<>> THEN <<>> ELSE Head(ss) \o Flatten(Tail(ss))

\* number of positions of s holding row r
Count(s, r) == Cardinality({i \in 1..Len(s) : s[i] = r})

\* the elements of a set, listed in some fixed order
RECURSIVE Listing(_)
Listing(S) ==
    IF S = {} THEN <<>>
    ELSE LET x == CHOOSE x \in S : TRUE IN <<x>> \o Listing(S \ {x})

\* the dataframes of up to n rows drawn from S.  A dataframe is a bag of rows
\* and nothing in the program depends on the order the files are read in:
\* every bag is listed once, in the order of Listing(S).
BagsUpTo(S, n) ==
    LET list == Listing(S)
    IN UNION {{[i \in 1..k |-> list[idx[i]]] :
                idx \in {f \in [1..k -> 1..Len(list)] :
                            \A i \in 1..k : \A j \in 1..k : i <= j => f[i] <= f[j]}} :
              k \in 0..n}

\* dropDuplicates left out: every row kept
KeepDuplicates(df) == df

\* DataFrame.dropDuplicates(): one row per distinct row, nulls compare equal

RECURSIVE DropDuplicates(_)
DropDuplicates(df) ==
    IF df = <<>> THEN <<>>
    ELSE LET front == DropDuplicates(SubSeq(df, 1, Len(df) - 1))
             last == df[Len(df)]
         IN IF last \in Range(front) THEN front ELSE Append(front, last)

\* DataFrame.join(right, on, how): every left row paired with every right row
\* the condition accepts (matched[i] lists those of left[i]); how = "left"
\* keeps an unmatched left row once, with an all-null right side.  A pair is
\* [l |-> left row, r |-> right row].
Join(left, matched, how, nullRight) ==
    Flatten([i \in 1..Len(left) |->
        IF matched[i] = <<>>
        THEN IF how = "left" THEN <<[l |-> left[i], r |-> nullRight]>> ELSE <<>>
        ELSE [j \in 1..Len(matched[i]) |-> [l |-> left[i], r |-> matched[i][j]]]])

\* ----------------------------------------------------- timestamp conversion
\* str(n) of a non-negative integer: its decimal digits
RECURSIVE Str(_)
Str(n) == IF n < 10 THEN <<n>> ELSE Append(Str(n \div 10), n % 10)

\* the cast of a decimal string to a long done by from_unixtime
RECURSIVE ParseLong(_)
ParseLong(s) ==
    IF s = <<>> THEN 0 ELSE ParseLong(SubSeq(s, 1, Len(s) - 1)) * 10 + s[Len(s)]

\* get_timestamp = udf(lambda x: str(int(x/1000))): milliseconds to seconds,
\* truncated, as a string.  Defined for a non-null ts only (x/1000 raises on
\* None).
get_timestamp(x) == Str(x \div 1000)

\* days since 1970-01-01 of the first of January of year y
DaysFromNewYear(y) ==
    LET yy == y - 1
        era == yy \div 400
        yoe == yy - era * 400
        doe == yoe * 365 + yoe \div 4 - yoe \div 100 + 306
    IN era * 146097 + doe - 719468

\* the civil date of a day number (days since 1970-01-01)
CivilFromDays(days) ==
    LET z == days + 719468
        era == z \div 146097
        doe == z - era * 146097
        yoe == (doe - doe \div 1460 + doe \div 36524 - doe \div 146096) \div 365
        doy == doe - (365 * yoe + yoe \div 4 - yoe \div 100)
        mp == (5 * doy + 2) \div 153
        d == doy - (153 * mp + 2) \div 5 + 1
        m == IF mp < 10 THEN mp + 3 ELSE mp - 9
    IN [year |-> yoe + era * 400 + (IF m <= 2 THEN 1 ELSE 0),
        month |-> m, day |-> d]

\* from_unixtime(col): the string column is cast to seconds since the epoch
\* and formatted as 'yyyy-MM-dd HH:mm:ss' (session time zone UTC); the value
\* is kept as the fields of that string, days is the day number it denotes.
from_unixtime(s) ==
    LET secs == ParseLong(s)
        days == secs \div 86400
        rem == secs % 86400
        date == CivilFromDays(days)
    IN [year |-> date.year, month |-> date.month, day |-> date.day,
        hour |-> rem \div 3600, minute |-> (rem % 3600) \div 60,
        second |-> rem % 60, days |-> days]

hour(dt) == dt.hour
dayofmonth(dt) == dt.day
month(dt) == dt.month
year(dt) == dt.year

\* dayofweek: 1 = Sunday .. 7 = Saturday
dayofweek(dt) == ((dt.days + 4) % 7) + 1

\* weekofyear: ISO 8601 week number, the week of the year that holds the
\* Thursday of the date's week
weekofyear(dt) ==
    LET isoday == ((dt.days + 3) % 7) + 1
        thursday == dt.days - (isoday - 1) + 3
    IN (thursday - DaysFromNewYear(CivilFromDays(thursday).year)) \div 7 + 1

\* ------------------------------------------------------------ process_song_data
\* df.select('song_id', 'title', 'artist_id', 'year', 'duration').dropDuplicates()
songs_table(df) ==
    DropDuplicates([i \in 1..Len(df) |->
        [song_id |-> df[i].song_id, title |-> df[i].title,
         artist_id |-> df[i].artist_id, year |-> df[i].year,
         duration |-> df[i].duration]])

\* df.select('artist_id', 'artist_name', ...).dropDuplicates() and the four
\* renames of the artist_ columns
artists_table(df) ==
    LET selected == DropDuplicates([i \in 1..Len(df) |->
            [artist_id |-> df[i].artist_id, artist_name |-> df[i].artist_name,
             artist_location |-> df[i].artist_location,
             artist_latitude |-> df[i].artist_latitude,
             artist_longitude |-> df[i].artist_longitude]])
    IN [i \in 1..Len(selected) |->
            [artist_id |-> selected[i].artist_id,
             name |-> selected[i].artist_name,
             location |-> selected[i].artist_location,
             latitude |-> selected[i].artist_latitude,
             longitude |-> selected[i].artist_longitude]]

\* ------------------------------------------------------------- process_log_data
\* every event kept, whatever its page
KeepAllPages(df) == df

\* df.filter(df.page == 'NextSong'); a null page compares to null and is dropped
FilterNextSong(df) == SelectSeq(df, LAMBDA e : SqlEq(e.page, "NextSong"))

\* the smallest ts of a group instead of the largest
MinTs(S) == IF S = {} THEN NoTs ELSE CHOOSE m \in S : \A x \in S : m <= x

\* max('ts') of a group: nulls are ignored, null when the group has no ts
MaxTs(S) == IF S = {} THEN NoTs ELSE CHOOSE m \in S : \A x \in S : x <= m

\* df.groupBy('userId').max('ts'): one row per distinct userId (the null
\* userIds form one group)
max_ts_user_df(df) ==
    LET keys == DropDuplicates([i \in 1..Len(df) |-> df[i].userId])
    IN [k \in 1..Len(keys) |->
            [user_id |-> keys[k],
             max_ts |-> MaxTs({df[i].ts : i \in {n \in 1..Len(df) :
                                   df[n].userId = keys[k]}} \ {NoTs})]]

\* the join condition with the comparison of ts left out
mask_user_only(e, g) == SqlEq(e.userId, g.user_id)

\* mask = (df.userId == max_ts_user_df.user_id) & (df.ts == max_ts_user_df.max_ts)
mask(e, g) == SqlEq(e.userId, g.user_id) /\ SqlEqTs(e.ts, g.max_ts)

\* df.join(max_ts_user_df, mask, how='inner').select(...) and the renames
users_table(df) ==
    LET matched == [i \in 1..Len(df) |->
                        SelectSeq(max_ts_user_df(df), LAMBDA g : mask(df[i], g))]
        joined == Join(df, matched, "inner", <<>>)
    IN [i \in 1..Len(joined) |->
            [user_id |-> joined[i].l.userId,
             first_name |-> joined[i].l.firstName,
             last_name |-> joined[i].l.lastName,
             gender |-> joined[i].l.gender,
             level |-> joined[i].l.level]]

\* the python lambda of get_timestamp raises on a null ts: the job that
\* evaluates the ts_ms column fails
TsMsComputable(df) == \A i \in 1..Len(df) : df[i].ts /= NoTs

\* the calendar row of one event
time_row(e) ==
    LET datetime == from_unixtime(get_timestamp(e.ts))
    IN [start_time |-> datetime, hour |-> hour(datetime),
        day |-> dayofmonth(datetime), week |-> weekofyear(datetime),
        month |-> month(datetime), year |-> year(datetime),
        weekday |-> dayofweek(datetime)]

\* the calendar rows with equal rows collapsed
time_table_distinct(df) == DropDuplicates([i \in 1..Len(df) |-> time_row(df[i])])

\* df.withColumn('datetime', ...) ... .select('start_time', 'hour', ...)
time_table(df) == [i \in 1..Len(df) |-> time_row(df[i])]

\* the right side of an unmatched event in the left join
NullSong ==
    [song_id |-> Null, title |-> Null, artist_id |-> Null, artist_name |-> Null,
     artist_location |-> Null, artist_latitude |-> Null,
     artist_longitude |-> Null, year |-> Null, duration |-> Null]

\* the join condition with the comparison of the artist left out
song_match_title_only(e, s) == SqlEq(e.song, s.title)

\* (df.song == song_df.title) & (df.artist == song_df.artist_name)
song_match(e, s) == SqlEq(e.song, s.title) /\ SqlEq(e.artist, s.artist_name)

\* df.join(song_df, ..., how='left')
songplays_join(df, song_df) ==
    Join(df, [i \in 1..Len(df) |-> SelectSeq(song_df, LAMBDA s : song_match(df[i], s))],
         "left", NullSong)

\* the ways the engine can lay n rows out over its partitions: the rows are
\* listed partition by partition, part[i] is the partition of row i
Partitionings(n) ==
    {part \in [1..n -> 0..(MaxPartitions - 1)] :
        \A i \in 1..n : \A j \in 1..n : i <= j => part[i] <= part[j]}

\* the id made of the record number alone
record_number_only(part, i) ==
    [partition |-> 0,
     record |-> Cardinality({k \in 1..(i - 1) : part[k] = part[i]})]

\* monotonically_increasing_id(): the partition id in the upper 31 bits and
\* the record number within the partition in the lower 33 bits, kept here as
\* the two bit fields
monotonically_increasing_id(part, i) ==
    [partition |-> part[i],
     record |-> Cardinality({k \in 1..(i - 1) : part[k] = part[i]})]

\* the joined rows with start_time, songplay_id, the selected and renamed
\* columns and year, month of start_time
songplays_table(df, song_df, part) ==
    LET joined == songplays_join(df, song_df)
    IN [i \in 1..Len(joined) |->
            LET start_time == from_unixtime(get_timestamp(joined[i].l.ts))
            IN [songplay_id |-> monotonically_increasing_id(part, i),
                start_time |-> start_time,
                user_id |-> joined[i].l.userId,
                level |-> joined[i].l.level,
                song_id |-> joined[i].r.song_id,
                artist_id |-> joined[i].r.artist_id,
                session_id |-> joined[i].l.sessionId,
                location |-> joined[i].l.location,
                user_agent |-> joined[i].l.userAgent,
                year |-> year(start_time),
                month |-> month(start_time)]]

\* ------------------------------------------------------------------ the run
\* main(): process_song_data writes dim_songs then dim_artists,
\* process_log_data writes dim_users, dim_time, fact_songplays
WriteOrder == <<"dim_songs", "dim_artists", "dim_users", "dim_time", "fact_songplays">>

Datasets == Range(WriteOrder)

Position(d) == CHOOSE i \in 1..Len(WriteOrder) : WriteOrder[i] = d

\* where main() stands after the write of d returned
NextStage(d) ==
    IF Position(d) = Len(WriteOrder) THEN "done" ELSE WriteOrder[Position(d) + 1]

\* the partitionBy columns of the write call of each dataset
PartitionBy(d) ==
    CASE d = "dim_songs" -> <<"year", "artist_id">>
      [] d = "dim_artists" -> <<>>
      [] d = "dim_users" -> <<>>
      [] d = "dim_time" -> <<>>
      [] d = "fact_songplays" -> <<"year", "month">>

\* the job of a write evaluates the dataframe; the datasets that use the
\* ts_ms column need get_timestamp to return for every filtered event
Computable(d) ==
    d \in {"dim_time", "fact_songplays"} => TsMsComputable(FilterNextSong(log_data))

\* the row sequences the write of d can store
Outcomes(d) ==
    LET df == FilterNextSong(log_data)
    IN CASE d = "dim_songs" -> {songs_table(song_data)}
         [] d = "dim_artists" -> {artists_table(song_data)}
         [] d = "dim_users" -> {users_table(df)}
         [] d = "dim_time" -> {time_table(df)}
         [] d = "fact_songplays" ->
                {songplays_table(df, song_data, part) :
                    part \in Partitionings(Len(songplays_join(df, song_data)))}

\* what a destination holds before the run touches it
OldContent == [status |-> "old", rows |-> <<>>, partitionBy |-> <<>>]

\* a destination whose files were removed and not yet replaced
Deleted == [status |-> "deleted", rows |-> <<>>, partitionBy |-> <<>>]

\* write...parquet(path, 'overwrite'), first part: the existing destination
\* is removed before the job that computes and writes the new files runs
BeginWrite(d) ==
    /\ pc = d
    /\ phase = "call"
    /\ dest' = [dest EXCEPT ![d] = Deleted]
    /\ phase' = "job"
    /\ UNCHANGED <<song_data, log_data, pc>>

\* write...parquet(path, 'overwrite'), second part: the job succeeds, the
\* new files are committed and main() goes on to the next statement
CommitWrite(d) ==
    /\ pc = d
    /\ phase = "job"
    /\ Computable(d)
    /\ \E rows \in Outcomes(d) :
          dest' = [dest EXCEPT ![d] = [status |-> "new", rows |-> rows,
                                       partitionBy |-> PartitionBy(d)]]
    /\ pc' = NextStage(d)
    /\ phase' = "call"
    /\ UNCHANGED <<song_data, log_data>>

\* a read, a job or a write raises (a storage fault, or get_timestamp on a
\* null ts): nothing in main() catches it, the run ends where it stands
Fail ==
    /\ pc \in Datasets
    /\ pc' = "aborted"
    /\ UNCHANGED <<song_data, log_data, dest, phase>>

Next ==
    \/ \E d \in Datasets : BeginWrite(d)
    \/ \E d \in Datasets : CommitWrite(d)
    \/ Fail

\* ------------------------------------------------------------------- inputs
\* a play of song T1 by artist N1 from user u1
Play ==
    [userId |-> "u1", firstName |-> "Ann", lastName |-> "Lee", gender |-> "F",
     level |-> "free", ts |-> 1000, page |-> "NextSong", song |-> "T1",
     artist |-> "N1", sessionId |-> 1, location |-> "Paris",
     userAgent |-> "Mozilla"]

\* the record of song T1 of artist N1
Song ==
    [song_id |-> "S1", title |-> "T1", artist_id |-> "A1", artist_name |-> "N1",
     artist_location |-> "Oslo", artist_latitude |-> 59, artist_longitude |-> 10,
     year |-> 2000, duration |-> 200]

\* log events that differ in user, ts, level and page; ts 1000 and 1999 fall
\* in the same second
UserEvents ==
    {[Play EXCEPT !.userId = u, !.ts = t, !.level = l] :
        u \in {"u1", "u2"}, t \in {1000, 1999}, l \in {"free", "paid"}}
    \cup {[Play EXCEPT !.page = "Login", !.userId = u, !.ts = 1999, !.level = "paid"] :
        u \in {"u1", "u2"}}
    \cup {[Play EXCEPT !.userId = Null],
          [Play EXCEPT !.ts = NoTs, !.level = "paid"],
          [Play EXCEPT !.page = Null],
          [Play EXCEPT !.firstName = "Anne", !.ts = 1999]}

\* log events that differ in song, artist, session and page
PlayEvents ==
    {Play,
     [Play EXCEPT !.song = "T2", !.sessionId = 2],
     [Play EXCEPT !.artist = "N2"],
     [Play EXCEPT !.song = Null, !.sessionId = 2],
     [Play EXCEPT !.page = "Login"]}

\* song records: two songs with the same title and artist name, one record
\* that differs from Song in the artist name only, one without a title
SongRecords ==
    {Song,
     [Song EXCEPT !.song_id = "S2", !.artist_id = "A2"],
     [Song EXCEPT !.artist_name = "N2"],
     [Song EXCEPT !.song_id = "S3", !.title = Null]}

InitRun ==
    /\ dest = [d \in Datasets |-> OldContent]
    /\ pc = WriteOrder[1]
    /\ phase = "call"

\* runs over logs of several users
InitLog ==
    /\ song_data = <<Song>>
    /\ log_data \in BagsUpTo(UserEvents, MaxEvents)
    /\ InitRun

\* runs over plays and song records to be joined
InitFact ==
    /\ song_data \in BagsUpTo(SongRecords, MaxSongs)
    /\ log_data \in BagsUpTo(PlayEvents, MaxEvents)
    /\ InitRun

SpecLog == InitLog /\ [][Next]_vars

SpecFact == InitFact /\ [][Next]_vars

\* ---------------------------------------------------------------- properties
\* C1: the fact table has as many rows as there are log events with
\* page = "NextSong", however many song records share an event's
\* (title, artist_name) pair.
C1_FactRowPerEvent ==
    dest["fact_songplays"].status = "new" =>
        Len(dest["fact_songplays"].rows) =
            Cardinality({i \in 1..Len(log_data) : log_data[i].page = "NextSong"})

\* C2 as stated, read over the NextSong events that have a user_id and a
\* ts: dim_users has exactly one row for every user_id of such an event, and
\* rows of no other user_id.
C2_OneRowPerUser ==
    dest["dim_users"].status = "new" =>
        LET rows == dest["dim_users"].rows
            users == {log_data[i].userId : i \in {n \in 1..Len(log_data) :
                        log_data[n].page = "NextSong" /\ log_data[n].ts /= NoTs}}
                     \ {Null}
        IN /\ \A u \in users :
                Cardinality({k \in 1..Len(rows) : rows[k].user_id = u}) = 1
           /\ \A k \in 1..Len(rows) : rows[k].user_id \in users

\* C2 amended: dim_users has, for every user_id that has a NextSong event
\* with a ts, one row per NextSong event of that user whose ts is the user's
\* maximum (at least one; exactly one when a single event carries the
\* maximum), and rows of no other user_id.
C2_RowPerLatestEvent ==
    dest["dim_users"].status = "new" =>
        LET rows == dest["dim_users"].rows
            plays == {n \in 1..Len(log_data) : log_data[n].page = "NextSong"}
            users == {log_data[i].userId : i \in {n \in plays :
                        log_data[n].ts /= NoTs}} \ {Null}
            latest(u) == {i \in plays :
                            /\ log_data[i].userId = u
                            /\ log_data[i].ts /= NoTs
                            /\ \A j \in plays : log_data[j].userId = u =>
                                    log_data[j].ts <= log_data[i].ts}
        IN /\ \A u \in users :
                /\ Cardinality({k \in 1..Len(rows) : rows[k].user_id = u})
                        = Cardinality(latest(u))
                /\ Cardinality(latest(u)) >= 1
           /\ \A k \in 1..Len(rows) : rows[k].user_id \in users

\* a run wrote two rows for one user and one row for another
C2_Witness ==
    /\ dest["dim_users"].status = "new"
    /\ LET rows == dest["dim_users"].rows
       IN /\ Cardinality({k \in 1..Len(rows) : rows[k].user_id = "u1"}) = 2
          /\ Cardinality({k \in 1..Len(rows) : rows[k].user_id = "u2"}) = 1

\* C3: every row of dim_users carries the names, gender and level of a
\* NextSong event of its user whose ts is the largest ts of that user's
\* NextSong events.
C3_LatestState ==
    dest["dim_users"].status = "new" =>
        LET rows == dest["dim_users"].rows
            plays == {n \in 1..Len(log_data) : log_data[n].page = "NextSong"}
        IN \A k \in 1..Len(rows) : \E i \in plays :
                /\ log_data[i].userId = rows[k].user_id
                /\ log_data[i].firstName = rows[k].first_name
                /\ log_data[i].lastName = rows[k].last_name
                /\ log_data[i].gender = rows[k].gender
                /\ log_data[i].level = rows[k].level
                /\ log_data[i].ts /= NoTs
                /\ \A j \in plays : log_data[j].userId = rows[k].user_id =>
                        log_data[j].ts <= log_data[i].ts

\* u1 played at ts 1000 as free and at ts 1999 as paid; dim_users holds u1
\* as paid
C3_Witness ==
    /\ dest["dim_users"].status = "new"
    /\ [Play EXCEPT !.ts = 1000, !.level = "free"] \in Range(log_data)
    /\ [Play EXCEPT !.ts = 1999, !.level = "paid"] \in Range(log_data)
    /\ \E k \in 1..Len(dest["dim_users"].rows) :
          /\ dest["dim_users"].rows[k].user_id = "u1"
          /\ dest["dim_users"].rows[k].level = "paid"

\* C4: dim_users, dim_time and fact_songplays are what the run computes from
\* the events with page = "NextSong" alone; an event with another page adds
\* no row and changes none.
C4_OnlyNextSong ==
    LET plays == SelectSeq(log_data, LAMBDA e : e.page = "NextSong")
    IN /\ dest["dim_users"].status = "new" =>
            dest["dim_users"].rows = users_table(plays)
       /\ dest["dim_time"].status = "new" =>
            dest["dim_time"].rows = time_table(plays)
       /\ dest["fact_songplays"].status = "new" =>
            \E part \in Partitionings(Len(songplays_join(plays, song_data))) :
                dest["fact_songplays"].rows = songplays_table(plays, song_data, part)

\* a finished run over a log with a Login event of u1 later than a play of u1
C4_Witness ==
    /\ pc = "done"
    /\ [Play EXCEPT !.page = "Login", !.ts = 1999, !.level = "paid"] \in Range(log_data)
    /\ Play \in Range(log_data)
    /\ Len(dest["dim_time"].rows) < Len(log_data)

\* C5: every dataset is written with the partitioning the specification
\* names, dim_time by (year, month).
C5_Partitioning ==
    \A d \in Datasets :
        dest[d].status = "new" =>
            dest[d].partitionBy =
                CASE d = "dim_songs" -> <<"year", "artist_id">>
                  [] d = "dim_time" -> <<"year", "month">>
                  [] d = "fact_songplays" -> <<"year", "month">>
                  [] OTHER -> <<>>

\* C6: a fact row with a song_id and an artist_id comes from a NextSong event
\* and one song record with the event's song as title and the event's artist
\* as artist_name, and has both keys of that record; every NextSong event
\* that no song record matches has a fact row with both keys null.
C6_LeftJoinKeys ==
    dest["fact_songplays"].status = "new" =>
        LET rows == dest["fact_songplays"].rows
            plays == {n \in 1..Len(log_data) : log_data[n].page = "NextSong"}
            songs == 1..Len(song_data)
            from(k, i) == /\ rows[k].user_id = log_data[i].userId
                          /\ rows[k].level = log_data[i].level
                          /\ rows[k].session_id = log_data[i].sessionId
                          /\ rows[k].location = log_data[i].location
                          /\ rows[k].user_agent = log_data[i].userAgent
            equal(i, j) == /\ log_data[i].song /= Null
                           /\ log_data[i].artist /= Null
                           /\ log_data[i].song = song_data[j].title
                           /\ log_data[i].artist = song_data[j].artist_name
            unmatched == {i \in plays : \A j \in songs : ~equal(i, j)}
        IN /\ \A k \in 1..Len(rows) :
                (rows[k].song_id /= Null /\ rows[k].artist_id /= Null) =>
                    \E i \in plays : \E j \in songs :
                        /\ equal(i, j)
                        /\ from(k, i)
                        /\ rows[k].song_id = song_data[j].song_id
                        /\ rows[k].artist_id = song_data[j].artist_id
           /\ \A i \in unmatched :
                Cardinality({k \in 1..Len(rows) :
                    /\ from(k, i)
                    /\ rows[k].song_id = Null
                    /\ rows[k].artist_id = Null})
                >= Cardinality({n \in unmatched :
                    /\ log_data[n].userId = log_data[i].userId
                    /\ log_data[n].level = log_data[i].level
                    /\ log_data[n].sessionId = log_data[i].sessionId
                    /\ log_data[n].location = log_data[i].location
                    /\ log_data[n].userAgent = log_data[i].userAgent})

\* the fact table holds a row with the keys of a song record and a row with
\* null keys for a play whose artist differs from every record of its title
C6_Witness ==
    /\ dest["fact_songplays"].status = "new"
    /\ [Play EXCEPT !.artist = "N2"] \in Range(log_data)
    /\ Range(song_data) = {Song}
    /\ \E k \in 1..Len(dest["fact_songplays"].rows) :
          dest["fact_songplays"].rows[k].song_id = "S1"
    /\ \E k \in 1..Len(dest["fact_songplays"].rows) :
          /\ dest["fact_songplays"].rows[k].song_id = Null
          /\ dest["fact_songplays"].rows[k].artist_id = Null

\* C7: dim_time has one row per event with page = "NextSong"; the events of
\* one second give as many equal rows as there are such events.
C7_TimeRowPerEvent ==
    dest["dim_time"].status = "new" =>
        LET rows == dest["dim_time"].rows
            plays == {n \in 1..Len(log_data) : log_data[n].page = "NextSong"}
            seconds(r) == r.start_time.days * 86400 + r.start_time.hour * 3600
                            + r.start_time.minute * 60 + r.start_time.second
        IN /\ Len(rows) = Cardinality(plays)
           /\ \A k \in 1..Len(rows) :
                Count(rows, rows[k]) =
                    Cardinality({i \in plays :
                        log_data[i].ts \div 1000 = seconds(rows[k])})

\* dim_time holds two equal rows, of two plays with different ts of one
\* second, next to a Login event that gave none
C7_Witness ==
    /\ dest["dim_time"].status = "new"
    /\ Len(dest["dim_time"].rows) = 2
    /\ dest["dim_time"].rows[1] = dest["dim_time"].rows[2]
    /\ \E i \in 1..Len(log_data) : log_data[i].page = "Login"
    /\ \E i \in 1..Len(log_data) : \E j \in 1..Len(log_data) :
          /\ log_data[i].page = "NextSong"
          /\ log_data[j].page = "NextSong"
          /\ log_data[i].ts /= log_data[j].ts

\* C8: dim_songs and dim_artists hold every distinct projected row of the
\* song records once, and the tables of the same records with any one of
\* them duplicated hold the same rows the same number of times.
C8_DimensionDedup ==
    LET songRow(r) == [song_id |-> r.song_id, title |-> r.title,
                       artist_id |-> r.artist_id, year |-> r.year,
                       duration |-> r.duration]
        artistRow(r) == [artist_id |-> r.artist_id, name |-> r.artist_name,
                         location |-> r.artist_location,
                         latitude |-> r.artist_latitude,
                         longitude |-> r.artist_longitude]
        sameRows(a, b) == \A r \in Range(a) \cup Range(b) : Count(a, r) = Count(b, r)
    IN /\ dest["dim_songs"].status = "new" =>
            LET rows == dest["dim_songs"].rows
            IN /\ \A r \in Range(rows) : Count(rows, r) = 1
               /\ Range(rows) = {songRow(song_data[i]) : i \in 1..Len(song_data)}
               /\ \A i \in 1..Len(song_data) :
                    sameRows(songs_table(Append(song_data, song_data[i])), rows)
       /\ dest["dim_artists"].status = "new" =>
            LET rows == dest["dim_artists"].rows
            IN /\ \A r \in Range(rows) : Count(rows, r) = 1
               /\ Range(rows) = {artistRow(song_data[i]) : i \in 1..Len(song_data)}
               /\ \A i \in 1..Len(song_data) :
                    sameRows(artists_table(Append(song_data, song_data[i])), rows)

\* two song records that differ in the artist name only were written as one
\* song and two artists
C8_Witness ==
    /\ dest["dim_artists"].status = "new"
    /\ Len(song_data) = 2
    /\ Len(dest["dim_songs"].rows) = 1
    /\ Len(dest["dim_artists"].rows) = 2

\* C9: no two rows of the fact table have the same songplay_id.
C9_SongplayIdsDistinct ==
    dest["fact_songplays"].status = "new" =>
        LET rows == dest["fact_songplays"].rows
        IN \A k \in 1..Len(rows) : \A n \in 1..Len(rows) :
                k /= n => rows[k].songplay_id /= rows[n].songplay_id

\* the fact table holds, in two partitions, two rows of two equal events
\* that differ in the songplay_id only
C9_Witness ==
    /\ dest["fact_songplays"].status = "new"
    /\ log_data = <<Play, Play>>
    /\ LET rows == dest["fact_songplays"].rows
       IN /\ Len(rows) = 2
          /\ rows[1].songplay_id.partition /= rows[2].songplay_id.partition
          /\ [rows[1] EXCEPT !.songplay_id = 0] = [rows[2] EXCEPT !.songplay_id = 0]

\* C10: the datasets are overwritten in the order of WriteOrder, a dataset
\* is touched only after every earlier one was replaced, an aborted run
\* leaves the later ones as they were, and when the run has ended, finished
\* or aborted, every dataset holds either its old content or its new
\* content, whole.
C10_OrderedWholeWrites ==
    \A d \in Datasets :
        /\ pc \in {"done", "aborted"} => dest[d].status \in {"old", "new"}
        /\ dest[d].status /= "old" =>
                \A e \in Datasets : Position(e) < Position(d) => dest[e].status = "new"
        /\ (dest[d].status = "old" /\ pc = "aborted") =>
                \A e \in Datasets : Position(d) < Position(e) => dest[e].status = "old"

====
